---- MODULE Spec2Model ----
(***************************************************************************)
(* A model of the pose-controlled item catcher:                            *)
(*   - the "V4" GameEngine and its Particle pool (unnamed/part_000,        *)
(*     lines 174-504), the engine the specification calls the richer one;  *)
(*   - the page driver of js/main.js (init, startGameLoop, stop,           *)
(*     handlePrediction) that owns the animation-frame loop.               *)
(*                                                                         *)
(* Numbers.  The program computes in IEEE doubles, and so does the model    *)
(* for every number a decision reads: the player's and the items'          *)
(* positions, the speeds (see "Numbers" below).  Particle life is counted  *)
(* in hundredths and an item's angle in steps of 0.05: no decision reads   *)
(* the angle, and a life is never within rounding of 0.                    *)
(* Math.random() is an input of the actions:                               *)
(* the lane is floor(random*3), the type draw is random in whole percent,  *)
(* the speed jitter is the double random*2, in [0, 2), named by its        *)
(* twentieths.                                                             *)
(* Fields that only feed the renderer and never a decision (a particle's   *)
(* x, y, vx, vy, size, colour; an item's icon and colour) are left out.    *)
(***************************************************************************)
EXTENDS Integers, Sequences, FiniteSets, TLC

VARIABLES
    atEnd,       \* the fields of the engine when gameOver() first ran in the
                 \* session, or Null
    engine,      \* the GameEngine object (a record of its fields), or Null
    budget,      \* update() calls the run may still make
    lastOp,      \* the last operation called and its argument (for start():
                 \* the state it was called in and the operation before it)
    notes,       \* listener calls made by the last operation, in order
    endCount,    \* onGameEnd calls since the last start()
    animationId, \* main.js: let animationId; NoId when null
    pending,     \* ids of the requestAnimationFrame callbacks scheduled and
                 \* not yet run, in the order they were requested
    startBtnDisabled, stopBtnDisabled, \* main.js: the two buttons
    poseEngine,  \* main.js: let poseEngine; the PoseEngine object it refers
                 \* to, NoId while undefined
    poseRunning, \* the PoseEngine objects started and not stopped since: each
                 \* of them delivers predictions to handlePrediction
    initsWaiting, \* main.js: the init() calls waiting at `await poseEngine.init`
    frameUpdates, \* gameEngine.update() calls made in the last animation frame
    stopped,     \* stop() has run since startGameLoop() last ran
    drawsSinceBomb, \* draw() calls since the update() of the last bomb hit
                    \* of the run; 0 while no bomb has hit
    shakenDraws, \* those of them that applied the screen shake
    sinceSpawn,  \* PLAYING update() calls since the last one of the session
                 \* that spawned an item, counting that one; 0 while none has
    burstSlots,  \* the pool slots of the explosion being followed
    burstAge     \* PLAYING update() calls since that explosion, counting
                 \* the one that made it

vars == <<engine, notes, endCount, atEnd, lastOp, budget, animationId, pending,
          startBtnDisabled, stopBtnDisabled, poseEngine, poseRunning, initsWaiting,
          frameUpdates,
          stopped, drawsSinceBomb, shakenDraws, sinceSpawn, burstSlots, burstAge>>

\* what a run has seen so far
drawVars == <<drawsSinceBomb, shakenDraws, sinceSpawn, burstSlots, burstAge>>

\* null / undefined, for an object reference
Null == [null |-> TRUE]

----------------------------------------------------------------------------
(* Numbers.  A JavaScript number is an IEEE 754 double.  The model holds a  *)
(* double as the record [neg, hi, lo, e]: its sign, its 53-bit significand *)
(* hi * 2^28 + lo (2^24 <= hi < 2^25, 0 <= lo < 2^28) and its exponent e;  *)
(* the value is (-1)^neg * (hi * 2^28 + lo) * 2^e, and zero is             *)
(* [FALSE, 0, 0, 0].  Every operation returns the double nearest to the    *)
(* exact result, ties to even, as the processor does: sums and quotients   *)
(* are carried with three more bits (guard, round, sticky), products in    *)
(* full.  Infinities, NaN, -0 and subnormals do not occur in the program's *)
(* range of values and are not modelled.                                   *)

Word == 268435456
Limb == 16384

Pow2Table == [i \in 0..30 |-> 2 ^ i]
Pow2(n) == Pow2Table[n]

\* the number of bits of n, for 0 <= n < 2^31: BitLen halves the width s it
\* looks at, from 16 down
RECURSIVE BitLen(_, _)
BitLen(n, s) ==
    IF s = 0 THEN n
    ELSE IF n >= Pow2(s) THEN s + BitLen(n \div Pow2(s), s \div 2)
    ELSE BitLen(n, s \div 2)

Bits(n) == BitLen(n, 16)

Double(neg, hi, lo, e) == [neg |-> neg, hi |-> hi, lo |-> lo, e |-> e]

Zero == Double(FALSE, 0, 0, 0)

IsZero(a) == a.hi = 0

\* |a| < |b|
MagLess(a, b) ==
    IF IsZero(b) THEN FALSE
    ELSE IF IsZero(a) THEN TRUE
    ELSE \/ a.e < b.e
         \/ a.e = b.e /\ (a.hi < b.hi \/ (a.hi = b.hi /\ a.lo < b.lo))

\* a < b
Less(a, b) ==
    IF a.neg # b.neg THEN a.neg
    ELSE IF a.neg THEN MagLess(b, a)
    ELSE MagLess(a, b)

Neg(a) == IF IsZero(a) THEN a ELSE [a EXCEPT !.neg = ~@]

Abs(a) == [a EXCEPT !.neg = FALSE]

\* A wide number is h * 2^28 + l with 0 <= l < 2^28.
\* The two words of the wide number h, l times 2^s, for 0 <= s < 56 and a
\* product below 2^57
ShlH(h, l, s) ==
    IF s = 0 THEN h
    ELSE IF s < 28 THEN h * Pow2(s) + l \div Pow2(28 - s)
    ELSE l * Pow2(s - 28)

ShlL(h, l, s) ==
    IF s = 0 THEN l
    ELSE IF s < 28 THEN (l % Pow2(28 - s)) * Pow2(s)
    ELSE 0

\* q with its last bit set when bits were lost (the sticky bit)
Sticky(q, lost) == IF lost /\ q % 2 = 0 THEN q + 1 ELSE q

\* The two words of the wide number h, l divided by 2^s, the last bit set
\* when bits were lost
ShrH(h, l, s) ==
    IF s = 0 THEN h
    ELSE IF s < 28 THEN h \div Pow2(s)
    ELSE 0

ShrL(h, l, s) ==
    IF s = 0 THEN l
    ELSE IF s < 28
    THEN Sticky(l \div Pow2(s) + (h % Pow2(s)) * Pow2(28 - s), l % Pow2(s) # 0)
    ELSE IF s < 57
    THEN Sticky(h \div Pow2(s - 28), l # 0 \/ h % Pow2(s - 28) # 0)
    ELSE IF h # 0 \/ l # 0 THEN 1 ELSE 0

\* the double after (-1)^neg * (hi * 2^28 + lo) * 2^e in magnitude
RoundUp(neg, hi, lo, e) ==
    IF lo + 1 < Word THEN Double(neg, hi, lo + 1, e)
    ELSE IF hi + 1 < 33554432 THEN Double(neg, hi + 1, 0, e)
    ELSE Double(neg, 16777216, 0, e + 1)

\* Rounding to nearest, ties to even: half is the first bit dropped, rest
\* tells whether any later one was set
Rounded(neg, hi, lo, half, rest, e) ==
    IF half /\ (rest \/ lo % 2 = 1) THEN RoundUp(neg, hi, lo, e)
    ELSE Double(neg, hi, lo, e)

\* The double nearest to (-1)^neg * (h * 2^28 + l) * 2^e, the wide number
\* having 56 bits: 53 of the significand, then guard, round and sticky.
RoundWide(neg, h, l, e) ==
    Rounded(neg, h \div 8, (h % 8) * 33554432 + l \div 8,
            l % 8 >= 4, l % 4 # 0, e + 3)

\* The double nearest to (-1)^neg * (h * 2^28 + l) * 2^e, for a wide number
\* of n bits, 0 < n <= 57, whose last bit is sticky
NormalBits(neg, h, l, e, n) ==
    RoundWide(neg,
              IF n = 57 THEN ShrH(h, l, 1) ELSE ShlH(h, l, 56 - n),
              IF n = 57 THEN ShrL(h, l, 1) ELSE ShlL(h, l, 56 - n),
              e - (56 - n))

Normal(neg, h, l, e) ==
    IF h = 0 /\ l = 0 THEN Zero
    ELSE NormalBits(neg, h, l, e, Bits(IF h = 0 THEN l ELSE h) + (IF h = 0 THEN 0 ELSE 28))

\* The wide number h, l whose low word l, a sum or a difference of two
\* words, is out of range: the carry or the borrow goes to the high word
Carried(neg, h, l, e) ==
    Normal(neg,
           IF l < 0 THEN h - 1 ELSE h + l \div Word,
           IF l < 0 THEN l + Word ELSE l % Word,
           e)

\* The sum (same) or the difference of the wide numbers xh, xl and yh, yl,
\* the second the smaller
AddWide(neg, same, xh, xl, yh, yl, e) ==
    Carried(neg,
            IF same THEN xh + yh ELSE xh - yh,
            IF same THEN xl + yl ELSE xl - yl,
            e)

\* the wide number yh, yl moved d bits down to the exponent of xh, xl
AddAligned(neg, same, xh, xl, yh, yl, d, e) ==
    AddWide(neg, same, xh, xl, ShrH(yh, yl, d), ShrL(yh, yl, d), e)

\* big + small for |big| >= |small|, neither 0: both significands with three
\* more bits (guard, round, sticky)
AddOrdered(big, small) ==
    AddAligned(big.neg, big.neg = small.neg,
               ShlH(big.hi, big.lo, 3), ShlL(big.hi, big.lo, 3),
               ShlH(small.hi, small.lo, 3), ShlL(small.hi, small.lo, 3),
               big.e - small.e, big.e - 3)

\* a + b
Add(a, b) ==
    IF IsZero(a) THEN b
    ELSE IF IsZero(b) THEN a
    ELSE AddOrdered(IF MagLess(a, b) THEN b ELSE a, IF MagLess(a, b) THEN a ELSE b)

\* a - b
Sub(a, b) == Add(a, Neg(b))

\* the digits to the base 2^14 of the number whose columns are cols, from the
\* lowest, the carry going to the next column and the last one being the top digit
RECURSIVE Digits(_, _, _)
Digits(cols, i, carry) ==
    IF i > Len(cols) THEN <<carry>>
    ELSE <<(cols[i] + carry) % Limb>> \o Digits(cols, i + 1, (cols[i] + carry) \div Limb)

\* the product with digits p (8 of them, 105 or 106 bits) cut to its top 53
\* bits, which start `off` bits into p[4], and rounded
MulCut(neg, e, p, off) ==
    Rounded(neg,
            p[6] \div Pow2(off) + p[7] * Pow2(14 - off) + p[8] * Pow2(28 - off),
            p[4] \div Pow2(off) + p[5] * Pow2(14 - off) + (p[6] % Pow2(off)) * Pow2(28 - off),
            (p[4] \div Pow2(off - 1)) % 2 = 1,
            p[4] % Pow2(off - 1) # 0 \/ p[3] # 0 \/ p[2] # 0 \/ p[1] # 0,
            e + 42 + off)

MulDigits(neg, e, p) == MulCut(neg, e, p, IF p[8] >= 128 THEN 11 ELSE 10)

\* the significands in limbs of 14 bits (a1, b1 the lowest): the columns of
\* the long multiplication
MulLimbs(neg, e, a1, a2, a3, a4, b1, b2, b3, b4) ==
    MulDigits(neg, e,
              Digits(<< a1 * b1,
                        a1 * b2 + a2 * b1,
                        a1 * b3 + a2 * b2 + a3 * b1,
                        a1 * b4 + a2 * b3 + a3 * b2 + a4 * b1,
                        a2 * b4 + a3 * b3 + a4 * b2,
                        a3 * b4 + a4 * b3,
                        a4 * b4 >>, 1, 0))

\* a * b
Mul(a, b) ==
    IF IsZero(a) \/ IsZero(b) THEN Zero
    ELSE MulLimbs(a.neg # b.neg, a.e + b.e,
                  a.lo % Limb, a.lo \div Limb, a.hi % Limb, a.hi \div Limb,
                  b.lo % Limb, b.lo \div Limb, b.hi % Limb, b.hi \div Limb)

\* Long division: the wide number h, l holds the n bits of the quotient found
\* so far, r is the remainder, f the number of fraction bits among them; bit
\* is the next bit of the quotient.
RECURSIVE Divide(_, _, _, _, _, _)
DivideBit(h, l, n, r, q, f, bit) ==
    Divide(ShlH(h, l, 1), ShlL(h, l, 1) + bit, IF n = 0 /\ bit = 0 THEN 0 ELSE n + 1,
           2 * r - bit * q, q, f + 1)

Divide(h, l, n, r, q, f) ==
    IF h < 0 \/ l < 0 \/ r = 0 \/ n = 56
    THEN RoundWide(FALSE, ShlH(h, l, 56 - n), Sticky(ShlL(h, l, 56 - n), r # 0),
                   (0 - f) - (56 - n))
    ELSE DivideBit(h, l, n, r, q, f, IF 2 * r >= q THEN 1 ELSE 0)

\* the double nearest to p / q, for whole numbers 0 <= p < 2^28 and 0 < q < 2^15
Rat(p, q) ==
    IF p = 0 THEN Zero
    ELSE Divide(0, p \div q, Bits(p \div q), p % q, q, 0)

\* the double of the whole number n, for -2^31 < n < 2^31: its k bits, moved
\* to the top of the significand
MagBits(n, k) ==
    IF k <= 25 THEN Double(FALSE, n * Pow2(25 - k), 0, k - 53)
    ELSE Double(FALSE, n \div Pow2(k - 25), (n % Pow2(k - 25)) * Pow2(53 - k), k - 53)

Whole(n) ==
    IF n = 0 THEN Zero
    ELSE IF n < 0 THEN Neg(MagBits(0 - n, Bits(0 - n)))
    ELSE MagBits(n, Bits(n))

----------------------------------------------------------------------------
(* Program constants *)

PoolSize == 100
BurstSize == 15
ParticleLife == 100
ParticleDecay == 3
InitialLife == 3
InitialBaseSpeed == 6
SpeedStep == 1
SpeedUnits == 20
SpawnInterval == 45
SpawnY == -60
HitDist == 50
ShakeFrames == 20
FlashFrames == 5
RampModulus == 1000
RampWindow == 200
ComboStep == 10
LaneCount == 3
SmoothNum == 2
SmoothDen == 5
PlayerYPercent == 85
PageCanvasSize == 400

\* the literals 0.05, 0.4 and 0.85 of the program, and laneWidth / 2
Step == Rat(SpeedStep, SpeedUnits)
Smoothing == Rat(SmoothNum, SmoothDen)
PlayerYFactor == Rat(PlayerYPercent, 100)
Half == Rat(1, 2)

\* spawnItem's table of item types
Types ==
    << [id |-> "apple",   score |-> 100],
       [id |-> "grape",   score |-> 200],
       [id |-> "orange",  score |-> 300],
       [id |-> "diamond", score |-> 1000],
       [id |-> "bomb",    score |-> 0] >>

\* spawnItem's draw: r is Math.random() in whole percent
TypeFor(r) ==
    IF r < 20 THEN Types[5]
    ELSE IF r < 30 THEN Types[4]
    ELSE IF r < 50 THEN Types[3]
    ELSE IF r < 70 THEN Types[2]
    ELSE Types[1]

----------------------------------------------------------------------------
(* Pose labels: strings as sequences of characters *)

L_Left   == <<"L","e","f","t">>
L_Center == <<"C","e","n","t","e","r">>
L_Right  == <<"R","i","g","h","t">>
L_left   == <<"l","e","f","t">>
L_center == <<"c","e","n","t","e","r">>
L_LEFT   == <<"L","E","F","T">>
L_right  == <<"r","i","g","h","t">>
L_bogus  == <<"b","o","g","u","s">>

LowerOf(ch) ==
    CASE ch = "L" -> "l" [] ch = "E" -> "e" [] ch = "F" -> "f" [] ch = "T" -> "t"
      [] ch = "C" -> "c" [] ch = "N" -> "n" [] ch = "R" -> "r" [] ch = "I" -> "i"
      [] ch = "G" -> "g" [] ch = "H" -> "h" [] ch = "B" -> "b" [] ch = "O" -> "o"
      [] ch = "U" -> "u" [] ch = "S" -> "s" [] OTHER -> ch

\* the label with every letter in lower case
Lower(label) == [i \in 1..Len(label) |-> LowerOf(label[i])]

----------------------------------------------------------------------------
(* Particle *)

\* new Particle()
NewParticle == [active |-> FALSE, life |-> 0]

\* Particle.spawn
ParticleSpawn(p) == [p EXCEPT !.active = TRUE, !.life = ParticleLife]

\* a particle update that takes 0.02 of life
ParticleUpdateSlow(p) ==
    IF ~p.active THEN p
    ELSE LET l == p.life - (ParticleDecay - 1)
         IN [p EXCEPT !.life = l, !.active = ~(l <= 0)]

\* Particle.update
ParticleUpdate(p) ==
    IF ~p.active THEN p
    ELSE LET l == p.life - ParticleDecay
         IN [p EXCEPT !.life = l, !.active = ~(l <= 0)]

\* The pool this.particles is held run-length encoded: a sequence of runs
\* [from, p], the slots from index `from` up to the next run having the
\* fields of p, adjacent runs differing in p.  Slots(ps) is the array itself.
Slots(ps) ==
    [i \in 1..PoolSize |->
        ps[CHOOSE k \in 1..Len(ps) :
              /\ ps[k].from <= i
              /\ \A m \in 1..Len(ps) : ps[m].from <= i => m <= k].p]

\* the pool whose array is arr
Pack(arr) ==
    LET starts == {i \in 1..Len(arr) : i = 1 \/ arr[i] # arr[i - 1]}
        nth(k) == CHOOSE i \in starts : Cardinality({j \in starts : j < i}) = k - 1
    IN [k \in 1..Cardinality(starts) |-> [from |-> nth(k), p |-> arr[nth(k)]]]

\* for (let i = 0; i < 100; i++) this.particles.push(new Particle())
NewPool == Pack([i \in 1..PoolSize |-> NewParticle])

ActiveCount(ps) == Cardinality({i \in 1..PoolSize : Slots(ps)[i].active})

----------------------------------------------------------------------------
(* GameEngine *)

\* new GameEngine()
Constructed ==
    [ state |-> "READY", score |-> 0, life |-> InitialLife, level |-> 1,
      combo |-> 0, maxCombo |-> 0, items |-> <<>>, laneCount |-> LaneCount,
      playerLane |-> 1, playerX |-> Zero, targetX |-> Zero,
      shakeTimer |-> 0, flashTimer |-> 0,
      baseSpeed |-> Whole(InitialBaseSpeed), spawnTimer |-> 0,
      spawnInterval |-> SpawnInterval,
      particles |-> NewPool,
      canvas |-> Null ]

\* GameEngine.init(canvas)
EngineInit(e, canvas) ==
    [e EXCEPT !.canvas = canvas,
              !.playerX = Rat(canvas.width, 2),
              !.targetX = Rat(canvas.width, 2)]

\* A running operation: the engine, the listener calls made so far, and the
\* engine as it was when gameOver() first ran in this operation (else Null).
Ctx(e) == [eng |-> e, out |-> <<>>, atEnd |-> Null]

\* GameEngine.notifyUI
NotifyUI(c) ==
    [c EXCEPT !.out = Append(@, <<"onScoreChange", c.eng.score, c.eng.life,
                                  c.eng.level, c.eng.combo>>)]

\* a start() that keeps the items on the field
StartKeepsItems(c) ==
    NotifyUI([c EXCEPT !.eng.state = "PLAYING",
                       !.eng.score = 0,
                       !.eng.life = InitialLife,
                       !.eng.level = 1,
                       !.eng.combo = 0,
                       !.eng.baseSpeed = Whole(InitialBaseSpeed),
                       !.eng.particles =
                           Pack([i \in 1..PoolSize |->
                                    [Slots(@)[i] EXCEPT !.active = FALSE]])])

\* a start() that files the combo it resets as the best combo
StartFilesCombo(c) ==
    NotifyUI([c EXCEPT !.eng.state = "PLAYING",
                       !.eng.score = 0,
                       !.eng.life = InitialLife,
                       !.eng.level = 1,
                       !.eng.maxCombo = c.eng.combo,
                       !.eng.combo = 0,
                       !.eng.items = <<>>,
                       !.eng.baseSpeed = Whole(InitialBaseSpeed),
                       !.eng.particles =
                           Pack([i \in 1..PoolSize |->
                                    [Slots(@)[i] EXCEPT !.active = FALSE]])])

\* GameEngine.start
Start(c) ==
    NotifyUI([c EXCEPT !.eng.state = "PLAYING",
                       !.eng.score = 0,
                       !.eng.life = InitialLife,
                       !.eng.level = 1,
                       !.eng.combo = 0,
                       !.eng.items = <<>>,
                       !.eng.baseSpeed = Whole(InitialBaseSpeed),
                       !.eng.particles =
                           Pack([i \in 1..PoolSize |->
                                    [Slots(@)[i] EXCEPT !.active = FALSE]])])

\* the fields a finished game is to keep
Frozen(e) ==
    [ score |-> e.score, life |-> e.life, combo |-> e.combo,
      baseSpeed |-> e.baseSpeed, shakeTimer |-> e.shakeTimer,
      flashTimer |-> e.flashTimer, particles |-> e.particles, items |-> e.items ]

\* GameEngine.gameOver
GameOver(c) ==
    LET c1 == [c EXCEPT !.eng.state = "GAME_OVER",
                        !.out = Append(@, <<"onGameEnd", c.eng.score, c.eng.level>>)]
    IN IF c.atEnd = Null THEN [c1 EXCEPT !.atEnd = Frozen(c1.eng)] ELSE c1

\* const laneWidth = this.canvas.width / 3; the quotient is kept for the
\* page's canvas and computed for any other
PageLaneWidth == Rat(PageCanvasSize, LaneCount)
LaneWidth(canvas) ==
    IF canvas.width = PageCanvasSize THEN PageLaneWidth
    ELSE Rat(canvas.width, LaneCount)

\* the literals 0.5, 1.5 and 2.5 of setPose
LaneFactors == <<Rat(1, 2), Rat(3, 2), Rat(5, 2)>>

\* the lane centre laneWidth * (lane + 0.5)
LaneTarget(canvas, lane) == Mul(LaneWidth(canvas), LaneFactors[lane + 1])

\* a setPose that also puts the player on the target at once
SetPoseSnaps(c, poseLabel) ==
    IF c.eng.state # "PLAYING" THEN c
    ELSE IF poseLabel = L_Left
         THEN [c EXCEPT !.eng.targetX = LaneTarget(c.eng.canvas, 0),
                        !.eng.playerX = LaneTarget(c.eng.canvas, 0)]
    ELSE IF poseLabel = L_Center
         THEN [c EXCEPT !.eng.targetX = LaneTarget(c.eng.canvas, 1),
                        !.eng.playerX = LaneTarget(c.eng.canvas, 1)]
    ELSE IF poseLabel = L_Right
         THEN [c EXCEPT !.eng.targetX = LaneTarget(c.eng.canvas, 2),
                        !.eng.playerX = LaneTarget(c.eng.canvas, 2)]
    ELSE c

\* a setPose that does not look at the state
SetPoseAnyState(c, poseLabel) ==
    IF poseLabel = L_Left THEN [c EXCEPT !.eng.targetX = LaneTarget(c.eng.canvas, 0)]
    ELSE IF poseLabel = L_Center THEN [c EXCEPT !.eng.targetX = LaneTarget(c.eng.canvas, 1)]
    ELSE IF poseLabel = L_Right THEN [c EXCEPT !.eng.targetX = LaneTarget(c.eng.canvas, 2)]
    ELSE c

\* GameEngine.setPose
SetPose(c, poseLabel) ==
    IF c.eng.state # "PLAYING" THEN c
    ELSE IF poseLabel = L_Left THEN [c EXCEPT !.eng.targetX = LaneTarget(c.eng.canvas, 0)]
    ELSE IF poseLabel = L_Center THEN [c EXCEPT !.eng.targetX = LaneTarget(c.eng.canvas, 1)]
    ELSE IF poseLabel = L_Right THEN [c EXCEPT !.eng.targetX = LaneTarget(c.eng.canvas, 2)]
    ELSE c

\* a scan that spawns the first slots of the pool, in use or not
ExplosionScanAny(arr, i, count) ==
    [k \in 1..Len(arr) |-> IF k <= BurstSize THEN ParticleSpawn(arr[k]) ELSE arr[k]]

\* GameEngine.spawnExplosion: the scan over the pool from slot i, count spawned
RECURSIVE ExplosionScan(_, _, _)
ExplosionScan(arr, i, count) ==
    IF i > Len(arr) THEN arr
    ELSE IF ~arr[i].active
         THEN IF count + 1 >= BurstSize
              THEN [arr EXCEPT ![i] = ParticleSpawn(@)]
              ELSE ExplosionScan([arr EXCEPT ![i] = ParticleSpawn(@)], i + 1, count + 1)
         ELSE ExplosionScan(arr, i + 1, count)

SpawnExplosion(c) == [c EXCEPT !.eng.particles = Pack(ExplosionScan(Slots(@), 1, 0))]

\* a resetCombo that notifies and keeps the combo
ResetComboKeeps(c) == NotifyUI(c)

\* GameEngine.resetCombo
ResetCombo(c) == NotifyUI([c EXCEPT !.eng.combo = 0])

\* GameEngine.spawnItem; rnd holds the three Math.random() draws
SpawnItem(c, rnd) ==
    LET laneWidth == LaneWidth(c.eng.canvas)
        type == TypeFor(rnd.r)
    IN [c EXCEPT !.eng.items =
           Append(@, [ x |-> Add(Mul(Whole(rnd.lane), laneWidth), Mul(laneWidth, Half)),
                       y |-> Whole(SpawnY),
                       type |-> type.id,
                       score |-> type.score,
                       speed |-> Add(c.eng.baseSpeed, rnd.jitter),
                       angle |-> 0 ])]

\* the difficulty ramp of handleCollision
Ramp(score, baseSpeed) ==
    IF score % RampModulus < RampWindow THEN Add(baseSpeed, Step) ELSE baseSpeed

\* an end-of-game test that lets a game at life 0 go on
LifeCheckBelowZero(c) == IF c.eng.life < 0 THEN GameOver(c) ELSE c

\* the end-of-game test of handleCollision
LifeCheck(c) == IF c.eng.life <= 0 THEN GameOver(c) ELSE c

\* a multiplier that is read before the hit is counted
MultiplierBeforeHit(combo) == 1 + ((combo - 1) \div ComboStep)

\* the combo multiplier of handleCollision: x1, x2, x3...
Multiplier(combo) == 1 + (combo \div ComboStep)

\* a handleCollision whose bomb also costs 50 points
HandleCollisionPenalty(c, item) ==
    IF item.type = "bomb"
    THEN LET c1 == ResetCombo([c EXCEPT !.eng.life = @ - 1, !.eng.score = @ - 50])
             c2 == SpawnExplosion([c1 EXCEPT !.eng.shakeTimer = ShakeFrames])
         IN LifeCheck(NotifyUI(c2))
    ELSE LET combo == c.eng.combo + 1
             score == c.eng.score + item.score * Multiplier(combo)
             c1 == SpawnExplosion([c EXCEPT !.eng.combo = combo, !.eng.score = score])
             c2 == IF item.type = "diamond"
                   THEN [c1 EXCEPT !.eng.flashTimer = FlashFrames] ELSE c1
             c3 == [c2 EXCEPT !.eng.baseSpeed = Ramp(score, @)]
         IN LifeCheck(NotifyUI(c3))

\* a handleCollision that flashes the screen on every scoring hit
HandleCollisionFlashes(c, item) ==
    IF item.type = "bomb"
    THEN LET c1 == ResetCombo([c EXCEPT !.eng.life = @ - 1])
             c2 == SpawnExplosion([c1 EXCEPT !.eng.shakeTimer = ShakeFrames])
         IN LifeCheck(NotifyUI(c2))
    ELSE LET combo == c.eng.combo + 1
             score == c.eng.score + item.score * Multiplier(combo)
             c1 == SpawnExplosion([c EXCEPT !.eng.combo = combo, !.eng.score = score])
             c2 == [c1 EXCEPT !.eng.flashTimer = FlashFrames]
             c3 == [c2 EXCEPT !.eng.baseSpeed = Ramp(score, @)]
         IN LifeCheck(NotifyUI(c3))

\* a handleCollision that raises the level with every 1000 points
HandleCollisionLevels(c, item) ==
    IF item.type = "bomb"
    THEN LET c1 == ResetCombo([c EXCEPT !.eng.life = @ - 1])
             c2 == SpawnExplosion([c1 EXCEPT !.eng.shakeTimer = ShakeFrames])
         IN LifeCheck(NotifyUI(c2))
    ELSE LET combo == c.eng.combo + 1
             score == c.eng.score + item.score * Multiplier(combo)
             c1 == SpawnExplosion([c EXCEPT !.eng.combo = combo, !.eng.score = score,
                                            !.eng.level = 1 + (score \div RampModulus)])
             c2 == IF item.type = "diamond"
                   THEN [c1 EXCEPT !.eng.flashTimer = FlashFrames] ELSE c1
             c3 == [c2 EXCEPT !.eng.baseSpeed = Ramp(score, @)]
         IN LifeCheck(NotifyUI(c3))

\* GameEngine.handleCollision
HandleCollision(c, item) ==
    IF item.type = "bomb"
    THEN LET c1 == ResetCombo([c EXCEPT !.eng.life = @ - 1])
             c2 == SpawnExplosion([c1 EXCEPT !.eng.shakeTimer = ShakeFrames])
         IN LifeCheck(NotifyUI(c2))
    ELSE LET combo == c.eng.combo + 1
             multiplier == Multiplier(combo)
             score == c.eng.score + item.score * multiplier
             c1 == SpawnExplosion([c EXCEPT !.eng.combo = combo, !.eng.score = score])
             c2 == IF item.type = "diamond"
                   THEN [c1 EXCEPT !.eng.flashTimer = FlashFrames] ELSE c1
             c3 == [c2 EXCEPT !.eng.baseSpeed = Ramp(score, @)]
         IN LifeCheck(NotifyUI(c3))

\* items.splice(i, 1)
Splice(items, i) == SubSeq(items, 1, i - 1) \o SubSeq(items, i + 1, Len(items))

\* const playerY = this.canvas.height * 0.85 and const hitDist = 50 of update;
\* the product is kept for the page's canvas and computed for any other
HitDistance == Whole(HitDist)
PagePlayerY == Mul(Whole(PageCanvasSize), PlayerYFactor)
PlayerY(canvas) ==
    IF canvas.height = PageCanvasSize THEN PagePlayerY
    ELSE Mul(Whole(canvas.height), PlayerYFactor)

\* the collision test of update
Collides(e, item) ==
    LET playerY == PlayerY(e.canvas)
    IN /\ Less(Abs(Sub(item.y, playerY)), HitDistance)
       /\ Less(Abs(Sub(item.x, e.playerX)), HitDistance)

\* an item loop that, having removed a caught item, passes over the next one
RECURSIVE ItemLoopSkips(_, _)
ItemLoopSkips(c, i) ==
    IF i < 1 THEN c
    ELSE LET old == c.eng.items[i]
             item == [old EXCEPT !.y = Add(@, old.speed), !.angle = @ + 1]
             c1 == [c EXCEPT !.eng.items[i] = item]
         IN IF Collides(c1.eng, item)
            THEN LET c2 == HandleCollision(c1, item)
                 IN ItemLoopSkips([c2 EXCEPT !.eng.items = Splice(@, i)], i - 2)
            ELSE IF Less(Whole(c1.eng.canvas.height), item.y)
            THEN ItemLoopSkips(ResetCombo([c1 EXCEPT !.eng.items = Splice(@, i)]), i - 1)
            ELSE ItemLoopSkips(c1, i - 1)

\* the item loop of update, from index i (1-based) down to the first item
RECURSIVE ItemLoop(_, _)
ItemLoop(c, i) ==
    IF i < 1 THEN c
    ELSE LET old == c.eng.items[i]
             item == [old EXCEPT !.y = Add(@, old.speed), !.angle = @ + 1]
             c1 == [c EXCEPT !.eng.items[i] = item]
         IN IF Collides(c1.eng, item)
            THEN LET c2 == HandleCollision(c1, item)
                 IN ItemLoop([c2 EXCEPT !.eng.items = Splice(@, i)], i - 1)
            ELSE IF Less(Whole(c1.eng.canvas.height), item.y)
            THEN ItemLoop(ResetCombo([c1 EXCEPT !.eng.items = Splice(@, i)]), i - 1)
            ELSE ItemLoop(c1, i - 1)

\* the particle loop of update
UpdatePool(ps) == Pack([i \in 1..PoolSize |-> ParticleUpdate(Slots(ps)[i])])

\* the juice timers of update
TimerTick(t) == IF t > 0 THEN t - 1 ELSE t

\* an update whose spawn timer fires on reaching the spawn interval
UpdateFiresEarly(c, rnd) ==
    IF c.eng.state # "PLAYING" THEN c
    ELSE LET e == c.eng
             c1 == [c EXCEPT !.eng.playerX = Add(@, Mul(Sub(e.targetX, @), Smoothing)),
                             !.eng.spawnTimer = @ + 1]
             c2 == IF c1.eng.spawnTimer >= c1.eng.spawnInterval
                   THEN [SpawnItem(c1, rnd) EXCEPT !.eng.spawnTimer = 0]
                   ELSE c1
             c3 == ItemLoop(c2, Len(c2.eng.items))
         IN [c3 EXCEPT !.eng.particles = UpdatePool(@),
                       !.eng.shakeTimer = TimerTick(@),
                       !.eng.flashTimer = TimerTick(@)]

\* GameEngine.update; rnd is used when the spawn timer fires
Update(c, rnd) ==
    IF c.eng.state # "PLAYING" THEN c
    ELSE LET e == c.eng
             c1 == [c EXCEPT !.eng.playerX = Add(@, Mul(Sub(e.targetX, @), Smoothing)),
                             !.eng.spawnTimer = @ + 1]
             c2 == IF c1.eng.spawnTimer > c1.eng.spawnInterval
                   THEN [SpawnItem(c1, rnd) EXCEPT !.eng.spawnTimer = 0]
                   ELSE c1
             c3 == ItemLoop(c2, Len(c2.eng.items))
         IN [c3 EXCEPT !.eng.particles = UpdatePool(@),
                       !.eng.shakeTimer = TimerTick(@),
                       !.eng.flashTimer = TimerTick(@)]

\* GameEngine.draw changes no field; what it paints besides the scene
Draw(e) ==
    [ shake |-> e.shakeTimer > 0,
      flash |-> e.flashTimer > 0,
      overlay |-> e.state = "GAME_OVER" ]

----------------------------------------------------------------------------
(* Bounds and inputs of the runs *)

MaxTicks == 2

\* canvases handed to GameEngine.init: the page's 400 x 400, and a taller one
PageCanvas == [width |-> PageCanvasSize, height |-> PageCanvasSize]
TallCanvasHeight == 900
TallCanvas == [width |-> PageCanvasSize, height |-> TallCanvasHeight]

\* labels the pose classifier may deliver
Labels == {L_Left, L_Center, L_Right, L_left, L_center, L_LEFT, L_right, L_bogus}

\* outcomes of the three Math.random() draws of spawnItem: the lane
\* floor(random * 3), the type draw in percent, and the jitter random * 2,
\* named by its twentieths j and kept as the double
Rnd(lane, r, j) == [lane |-> lane, r |-> r, jitter |-> Rat(j, SpeedUnits)]

Rands == {Rnd(lane, r, j) : lane \in 0..2, r \in {10, 25, 40, 60, 85}, j \in {0, 39}}

NoArg == <<>>

\* main.js: animationId = null (request ids start at 1, so 0 is as falsy as null)
NoId == 0

----------------------------------------------------------------------------
(* A played prefix of a session: init(canvas), start(), then `ticks` frames  *)
(* of update(), the k-th spawn drawing rnds[k], with setPose(label) called   *)
(* before frame t for every <<t, label>> of poses.                           *)

\* frame t of the script s: the setPose due, then update()
PlayFrame(e, s, t) ==
    LET posed == IF \E p \in s.poses : p[1] = t
                 THEN SetPose(Ctx(e), (CHOOSE p \in s.poses : p[1] = t)[2]).eng
                 ELSE e
        k == t \div (SpawnInterval + 1)
        rnd == IF k \in 1..Len(s.rnds) THEN s.rnds[k] ELSE Rnd(2, 85, 0)
    IN Update(Ctx(posed), rnd).eng

\* frames lo..hi of the script s, one after the other
RECURSIVE PlayFrom(_, _, _, _)
PlayFrom(e, s, lo, hi) ==
    IF e.spawnTimer < 0 \/ lo > hi THEN e
    ELSE IF lo = hi THEN PlayFrame(e, s, lo)
    ELSE LET mid == (lo + hi) \div 2
         IN PlayFrom(PlayFrom(e, s, lo, mid), s, mid + 1, hi)

Play(s) == PlayFrom(Start(Ctx(EngineInit(Constructed, s.canvas))).eng, s, 1, s.ticks)

Script(canvas, rnds, poses, ticks) ==
    [canvas |-> canvas, rnds |-> rnds, poses |-> poses, ticks |-> ticks]

\* k items of one kind dropped into the player's lane, played up to the frame
\* before the k-th reaches the player
Streak(r, k) ==
    Script(PageCanvas, [i \in 1..(k + 1) |-> Rnd(1, r, 0)], {}, 46 * k + 57)

\* an item dropped into the left lane while the player stays in the centre,
\* after `hits` oranges caught, played up to the frame before it leaves the field
Missed(r, hits) ==
    Script(PageCanvas,
           [i \in 1..(hits + 2) |-> IF i <= hits THEN Rnd(1, 40, 0) ELSE Rnd(0, r, 0)],
           {}, 46 * (hits + 1) + 74)

\* on the tall canvas: `bombs` bombs caught in the centre lane, then a slow item
\* (ra) and, one spawn later, a fast one (rb) in the left lane; the player
\* turns left so as to reach that lane when both are level with it
Pair(bombs, ra, rb) ==
    Script(TallCanvas,
           [i \in 1..(bombs + 4) |->
               IF i <= bombs THEN Rnd(1, 10, 0)
               ELSE IF i = bombs + 1 THEN Rnd(0, ra, 0)
               ELSE IF i = bombs + 2 THEN Rnd(0, rb, 39)
               ELSE Rnd(2, 85, 0)],
           {<<46 * (bombs + 1) + 142, L_Left>>},
           46 * (bombs + 1) + 142)

\* nine oranges caught in the centre lane, played up to the frame before the
\* tenth reaches the player (the seventh hit has raised baseSpeed by a step)
ComboRun == Script(PageCanvas, [i \in 1..11 |-> Rnd(1, 40, 0)], {}, 516)

Scripts ==
    {Script(PageCanvas, <<>>, {}, 0), Script(PageCanvas, <<>>, {}, 45)}
    \cup {ComboRun, Missed(85, 7)}
    \cup {Streak(10, k) : k \in 1..3}
    \cup {Streak(r, 1) : r \in {25, 60, 85}}
    \cup {Streak(40, k) : k \in {1, 4}}
    \cup {Missed(r, h) : r \in {10, 85}, h \in {0, 2}}
    \cup {Pair(b, ra, rb) : b \in {0, 2}, ra \in {10, 85}, rb \in {10, 25}}

\* the scripts played on the page's canvas
PageScripts == {s \in Scripts : s.canvas = PageCanvas}

Snapshots == {Constructed} \cup {Play(s) : s \in Scripts}

MainIdle ==
    /\ animationId = NoId
    /\ pending = <<>>
    /\ startBtnDisabled = FALSE
    /\ stopBtnDisabled = TRUE
    /\ poseEngine = NoId
    /\ poseRunning = {}
    /\ initsWaiting = 0
    /\ frameUpdates = 0
    /\ stopped = FALSE

\* no spawn and no explosion of the run has been seen yet
NothingFollowed ==
    /\ sinceSpawn = 0
    /\ burstSlots = {}
    /\ burstAge = 0

mainVars == <<animationId, pending, startBtnDisabled, stopBtnDisabled,
              poseEngine, poseRunning, initsWaiting, frameUpdates, stopped>>

----------------------------------------------------------------------------
(* The engine driven through its methods *)

Init ==
    /\ drawsSinceBomb = 0
    /\ shakenDraws = 0
    /\ NothingFollowed
    /\ engine \in Snapshots
    /\ notes = <<>>
    /\ endCount = 0
    /\ atEnd = Null
    /\ lastOp = [op |-> "new", arg |-> NoArg]
    /\ budget = MaxTicks
    /\ MainIdle

Ends(out) == Cardinality({i \in 1..Len(out) : out[i][1] = "onGameEnd"})

\* gameEngine.init(canvas), once, before anything else as in main.js init()
CallInit ==
    /\ engine.canvas = Null
    /\ engine' = EngineInit(engine, PageCanvas)
    /\ notes' = <<>>
    /\ lastOp' = [op |-> "init", arg |-> NoArg]
    /\ UNCHANGED <<endCount, atEnd, budget, mainVars>>
    /\ UNCHANGED drawVars

CallStart ==
    /\ engine.canvas # Null
    /\ LET c == Start(Ctx(engine))
       IN /\ engine' = c.eng
          /\ notes' = c.out
    /\ endCount' = 0
    /\ atEnd' = Null
    /\ lastOp' = [op |-> "start", arg |-> <<engine.state, lastOp.op>>]
    /\ UNCHANGED <<budget, mainVars>>
    /\ UNCHANGED drawVars

CallSetPose ==
    /\ engine.canvas # Null
    /\ \E label \in Labels :
          LET c == SetPose(Ctx(engine), label)
          IN /\ engine' = c.eng
             /\ notes' = c.out
             /\ lastOp' = [op |-> "setPose", arg |-> label]
    /\ UNCHANGED <<endCount, atEnd, budget, mainVars>>
    /\ UNCHANGED drawVars

\* the draws a frame can use: spawnItem runs only when the spawn timer fires
RandsFor(e) ==
    IF e.state = "PLAYING" /\ e.spawnTimer + 1 > e.spawnInterval
    THEN Rands ELSE {Rnd(0, 0, 0)}

CallUpdate ==
    /\ engine.canvas # Null
    /\ budget > 0
    /\ \E rnd \in RandsFor(engine) :
          LET c == Update(Ctx(engine), rnd)
          IN /\ engine' = c.eng
             /\ notes' = c.out
             /\ endCount' = endCount + Ends(c.out)
             /\ atEnd' = IF atEnd = Null THEN c.atEnd ELSE atEnd
    /\ budget' = IF engine.state = "PLAYING" THEN budget - 1 ELSE budget
    /\ lastOp' = [op |-> "update", arg |-> NoArg]
    /\ UNCHANGED mainVars
    /\ UNCHANGED drawVars

CallDraw ==
    /\ engine.canvas # Null
    /\ notes' = <<>>
    /\ lastOp' = [op |-> "draw", arg |-> Draw(engine)]
    /\ UNCHANGED <<engine, endCount, atEnd, budget, mainVars>>
    /\ UNCHANGED drawVars

Next == CallInit \/ CallStart \/ CallSetPose \/ CallUpdate \/ CallDraw

Spec == Init /\ [][Next]_vars

----------------------------------------------------------------------------
(* js/main.js: the page driver and the browser's animation-frame queue *)

\* ids a requestAnimationFrame call may return
MaxId == 4

\* init() calls that may wait at the same time
MaxInits == 2

\* PoseEngine objects that may run at the same time
MaxPoses == 3

\* the list ids without id
Without(ids, id) == SelectSeq(ids, LAMBDA x : x # id)

InList(ids, id) == \E i \in 1..Len(ids) : ids[i] = id

\* The page while an event handler runs: the globals of main.js, the callbacks still to
\* run in the current frame (batch), those requested for the next (pending),
\* the callback being run (running), and what the handler did to the engine.
Page(eng, batch) ==
    [ engine |-> eng, animationId |-> animationId,
      batch |-> batch, pending |-> IF batch = <<>> THEN pending ELSE <<>>,
      running |-> NoId,
      startBtnDisabled |-> startBtnDisabled, stopBtnDisabled |-> stopBtnDisabled,
      poseEngine |-> poseEngine, poseRunning |-> poseRunning, stopped |-> stopped,
      updates |-> 0, out |-> <<>> ]

\* cancelAnimationFrame(id)
CancelAnimationFrame(m, id) ==
    [m EXCEPT !.batch = Without(@, id), !.pending = Without(@, id)]

\* requestAnimationFrame(loop): a handle no live callback has
RequestAnimationFrame(m) ==
    LET id == CHOOSE x \in 1..MaxId :
                  /\ x # m.running /\ ~InList(m.batch, x) /\ ~InList(m.pending, x)
                  /\ \A y \in 1..(x - 1) :
                         y = m.running \/ InList(m.batch, y) \/ InList(m.pending, y)
    IN [m EXCEPT !.pending = Append(@, id), !.animationId = id]

\* new PoseEngine(...): an object apart from those that run
NewPose(running) == CHOOSE x \in 1..MaxPoses :
                        x \notin running /\ \A y \in 1..(x - 1) : y \in running

\* pose.start(), given the objects that run: pose runs as well
PoseStart(running, pose) == running \cup {pose}

\* if (pose) pose.stop(), given the objects that run: pose no longer runs,
\* the others do
PoseStop(running, pose) == running \ {pose}

\* stop()
MainStop(m) ==
    LET m1 == IF m.animationId # NoId
              THEN [CancelAnimationFrame(m, m.animationId) EXCEPT !.animationId = NoId]
              ELSE m
    IN [m1 EXCEPT !.poseRunning = PoseStop(@, m.poseEngine),
                  !.startBtnDisabled = FALSE,
                  !.stopBtnDisabled = TRUE,
                  !.stopped = TRUE]

\* gameEngine.onGameEnd = (score, level) => { stop(); }, once per call in out
RECURSIVE OnGameEnd(_, _, _)
OnGameEnd(m, out, i) ==
    IF i > Len(out) THEN m
    ELSE OnGameEnd(IF out[i][1] = "onGameEnd" THEN MainStop(m) ELSE m, out, i + 1)

\* loop(timestamp), the callback whose handle is id
Loop(m, id, rnd) ==
    LET c == Update(Ctx(m.engine), rnd)
        m0 == [m EXCEPT !.running = id]
        m1 == [m0 EXCEPT !.engine = c.eng, !.updates = @ + 1, !.out = @ \o c.out]
    IN IF m.engine = Null THEN RequestAnimationFrame(m0)
       ELSE RequestAnimationFrame(OnGameEnd(m1, c.out, 1))

\* one animation frame: the callbacks of the batch, in the order requested,
\* the update() of each with the draws that come next in rnds
RECURSIVE RunFrame(_, _)
RunFrame(m, rnds) ==
    IF m.batch = <<>> THEN m
    ELSE RunFrame(Loop([m EXCEPT !.batch = Tail(@)], Head(m.batch), Head(rnds)),
                  Tail(rnds))

\* the draws the callbacks of a frame can use, one set of draws for each
\* callback: what an update() draws depends on the engine as the callbacks
\* before it have left it
RECURSIVE FrameRands(_)
FrameRands(m) ==
    IF m.batch = <<>> THEN {<<>>}
    ELSE UNION {{<<rnd>> \o rest :
                     rest \in FrameRands(Loop([m EXCEPT !.batch = Tail(@)],
                                              Head(m.batch), rnd))} :
                rnd \in IF m.engine = Null THEN {Rnd(0, 0, 0)} ELSE RandsFor(m.engine)}

\* startGameLoop()
StartGameLoop(m) == [RequestAnimationFrame(m) EXCEPT !.stopped = FALSE]

\* the globals of main.js after the handler that left the page as m
Settle(m) ==
    /\ engine' = m.engine
    /\ notes' = m.out
    /\ animationId' = m.animationId
    /\ pending' = m.pending
    /\ startBtnDisabled' = m.startBtnDisabled
    /\ stopBtnDisabled' = m.stopBtnDisabled
    /\ poseEngine' = m.poseEngine
    /\ poseRunning' = m.poseRunning
    /\ stopped' = m.stopped

\* the start button: init() up to `await poseEngine.init(...)`; the button
\* works whenever it is enabled, also while an earlier init() still waits,
\* and each call puts a new PoseEngine in place of the one poseEngine held
ClickStart ==
    /\ ~startBtnDisabled
    /\ initsWaiting < MaxInits
    /\ Cardinality(poseRunning) < MaxPoses
    /\ startBtnDisabled' = TRUE
    /\ poseEngine' = NewPose(poseRunning)
    /\ initsWaiting' = initsWaiting + 1
    /\ notes' = <<>>
    /\ lastOp' = [op |-> "clickStart", arg |-> NoArg]
    /\ UNCHANGED <<engine, endCount, atEnd, budget, animationId, pending,
                   stopBtnDisabled, poseRunning, frameUpdates, stopped>>
    /\ UNCHANGED drawVars

\* one waiting init() from the await on: a new engine on the page's canvas,
\* the PoseEngine that poseEngine holds by now started, gameEngine.start(),
\* startGameLoop(), stop button enabled
InitSucceeds ==
    /\ initsWaiting > 0
    /\ LET c == Start(Ctx(EngineInit(Constructed, PageCanvas)))
           m == StartGameLoop([Page(c.eng, <<>>) EXCEPT
                                   !.poseRunning = PoseStart(@, poseEngine),
                                   !.out = c.out])
       IN Settle([m EXCEPT !.stopBtnDisabled = FALSE])
    /\ initsWaiting' = initsWaiting - 1
    /\ lastOp' = [op |-> "init", arg |-> NoArg]
    /\ UNCHANGED <<endCount, atEnd, budget, frameUpdates>>
    /\ UNCHANGED drawVars

\* one waiting init() when poseEngine.init rejects: the catch block
InitFails ==
    /\ initsWaiting > 0
    /\ startBtnDisabled' = FALSE
    /\ initsWaiting' = initsWaiting - 1
    /\ notes' = <<>>
    /\ lastOp' = [op |-> "initFailed", arg |-> NoArg]
    /\ UNCHANGED <<engine, endCount, atEnd, budget, animationId, pending,
                   stopBtnDisabled, poseEngine, poseRunning, frameUpdates, stopped>>
    /\ UNCHANGED drawVars

\* the stop button
ClickStop ==
    /\ ~stopBtnDisabled
    /\ Settle(MainStop(Page(engine, <<>>)))
    /\ lastOp' = [op |-> "stop", arg |-> NoArg]
    /\ UNCHANGED <<endCount, atEnd, budget, initsWaiting, frameUpdates>>
    /\ UNCHANGED drawVars

\* the browser runs the animation-frame callbacks
AnimationFrame ==
    /\ pending # <<>>
    /\ budget > 0
    /\ \E rnds \in FrameRands(Page(engine, pending)) :
          LET m == RunFrame(Page(engine, pending), rnds)
          IN /\ Settle(m)
             /\ frameUpdates' = m.updates
    /\ budget' = IF engine.state = "PLAYING" THEN budget - 1 ELSE budget
    /\ lastOp' = [op |-> "frame", arg |-> NoArg]
    /\ UNCHANGED <<endCount, atEnd, initsWaiting>>
    /\ UNCHANGED drawVars

\* handlePrediction with a stabilized class name, called by a PoseEngine
\* that runs
Prediction ==
    /\ poseRunning # {}
    /\ engine # Null
    /\ \E label \in Labels :
          /\ engine' = SetPose(Ctx(engine), label).eng
          /\ lastOp' = [op |-> "setPose", arg |-> label]
    /\ notes' = <<>>
    /\ UNCHANGED <<endCount, atEnd, budget, mainVars>>
    /\ UNCHANGED drawVars

\* the page as loaded, or in the middle of a first session it has played
InitMain ==
    /\ drawsSinceBomb = 0
    /\ shakenDraws = 0
    /\ NothingFollowed
    /\ notes = <<>>
    /\ endCount = 0
    /\ atEnd = Null
    /\ lastOp = [op |-> "new", arg |-> NoArg]
    /\ budget = MaxTicks
    /\ frameUpdates = 0
    /\ \/ /\ engine = Null
          /\ animationId = NoId
          /\ pending = <<>>
          /\ startBtnDisabled = FALSE
          /\ stopBtnDisabled = TRUE
          /\ poseEngine = NoId
          /\ poseRunning = {}
          /\ initsWaiting = 0
          /\ stopped = FALSE
       \/ /\ engine \in {Play(s) : s \in PageScripts}
          /\ animationId = 1
          /\ pending = <<1>>
          /\ startBtnDisabled = TRUE
          /\ stopBtnDisabled = FALSE
          /\ poseEngine = 1
          /\ poseRunning = {1}
          /\ initsWaiting = 0
          /\ stopped = FALSE

NextMain ==
    ClickStart \/ InitSucceeds \/ InitFails \/ ClickStop \/ AnimationFrame \/ Prediction

SpecMain == InitMain /\ [][NextMain]_vars

----------------------------------------------------------------------------
(* The particle pool of a started engine under explosions and updates *)

PoolSteps == 12

InitPool ==
    /\ drawsSinceBomb = 0
    /\ shakenDraws = 0
    /\ NothingFollowed
    /\ engine = Start(Ctx(EngineInit(Constructed, PageCanvas))).eng
    /\ notes = <<>>
    /\ endCount = 0
    /\ atEnd = Null
    /\ lastOp = [op |-> "new", arg |-> NoArg]
    /\ budget = PoolSteps
    /\ MainIdle

\* this.spawnExplosion(x, y, color)
Explode ==
    /\ budget > 0
    /\ engine' = SpawnExplosion(Ctx(engine)).eng
    /\ lastOp' = [op |-> "spawnExplosion", arg |-> NoArg]
    /\ budget' = budget - 1
    /\ notes' = <<>>
    /\ UNCHANGED <<endCount, atEnd, mainVars>>
    /\ UNCHANGED drawVars

\* for (const p of this.particles) p.update()
PoolTick ==
    /\ budget > 0
    /\ engine' = [engine EXCEPT !.particles = UpdatePool(@)]
    /\ lastOp' = [op |-> "particles", arg |-> NoArg]
    /\ budget' = budget - 1
    /\ notes' = <<>>
    /\ UNCHANGED <<endCount, atEnd, mainVars>>
    /\ UNCHANGED drawVars

NextPool == Explode \/ PoolTick

SpecPool == InitPool /\ [][NextPool]_vars

----------------------------------------------------------------------------
(* Frames of a session: update() then draw(), as the loop of main.js calls them *)

MaxFrames == 36

InitFrames ==
    /\ engine \in {Play(Streak(10, k)) : k \in 1..2}
    /\ notes = <<>>
    /\ endCount = 0
    /\ atEnd = Null
    /\ lastOp = [op |-> "new", arg |-> NoArg]
    /\ budget = MaxFrames
    /\ drawsSinceBomb = 0
    /\ shakenDraws = 0
    /\ NothingFollowed
    /\ MainIdle

\* the item after one pass of the item loop has advanced it
Advanced(item) == [item EXCEPT !.y = Add(@, item.speed), !.angle = @ + 1]

\* the items of e, each advanced once, that neither collide with the player
\* of e2 nor are past the bottom of the canvas, in their order
Survivors(e, e2) ==
    SelectSeq([i \in 1..Len(e.items) |-> Advanced(e.items[i])],
              LAMBDA it : ~Collides(e2, it) /\ ~Less(Whole(e.canvas.height), it.y))

\* how many items the update() that led from e to e2 put on the field
Spawned(e, e2) == Len(e2.items) - Len(Survivors(e, e2))

\* the pool slots the update() that led from e to e2 activated
Activated(e, e2) ==
    {i \in 1..PoolSize : Slots(e2.particles)[i].active /\ ~Slots(e.particles)[i].active}

\* Keeps the record of a run over the update() that led from e to e2: the
\* updates since the last spawn, and one explosion at a time, followed from
\* the update() that made it until all its slots are inactive again.
Follow(e, e2) ==
    IF e.state # "PLAYING"
    THEN UNCHANGED <<sinceSpawn, burstSlots, burstAge>>
    ELSE /\ sinceSpawn' = IF Spawned(e, e2) > 0 THEN 1
                          ELSE IF sinceSpawn = 0 THEN 0
                          ELSE sinceSpawn + 1
         /\ IF \E i \in burstSlots : Slots(e.particles)[i].active
            THEN /\ burstSlots' = burstSlots
                 /\ burstAge' = burstAge + 1
            ELSE /\ burstSlots' = Activated(e, e2)
                 /\ burstAge' = IF Activated(e, e2) = {} THEN 0 ELSE 1

\* 1 when draw() applies the shake offset in the engine e, else 0
Shaken(e) == IF Draw(e).shake THEN 1 ELSE 0

\* gameEngine.update(); gameEngine.draw();
Frame ==
    /\ budget > 0
    /\ \E rnd \in RandsFor(engine) :
          LET c == Update(Ctx(engine), rnd)
          IN /\ engine' = c.eng
             /\ notes' = c.out
             /\ lastOp' = [op |-> "frame", arg |-> Draw(c.eng)]
             /\ IF c.eng.life < engine.life
                THEN /\ drawsSinceBomb' = 1
                     /\ shakenDraws' = Shaken(c.eng)
                ELSE IF drawsSinceBomb = 0
                THEN UNCHANGED <<drawsSinceBomb, shakenDraws>>
                ELSE /\ drawsSinceBomb' = drawsSinceBomb + 1
                     /\ shakenDraws' = shakenDraws + Shaken(c.eng)
             /\ Follow(engine, c.eng)
    /\ budget' = budget - 1
    /\ UNCHANGED <<endCount, atEnd, mainVars>>

NextFrames == Frame

SpecFrames == InitFrames /\ [][NextFrames]_vars

----------------------------------------------------------------------------
(* Long runs of update(), with start() called again at any moment *)

MaxUpdates == 100

\* the sessions a long run starts in: a fresh one, and one whose first bomb
\* is about to hit, a second bomb following it
CadenceStarts == {Script(PageCanvas, <<>>, {}, 0), Streak(10, 1)}

\* the draws of spawnItem in a long run: a bomb or an apple, unjittered, into
\* the player's lane or into the lane left of it
CadenceRands ==
    {rnd \in Rands : rnd.jitter = Zero /\ rnd.r \in {10, 85} /\ rnd.lane \in {0, 1}}

InitCadence ==
    /\ engine \in {Play(s) : s \in CadenceStarts}
    /\ notes = <<>>
    /\ endCount = 0
    /\ atEnd = Null
    /\ lastOp = [op |-> "new", arg |-> NoArg]
    /\ budget = MaxUpdates
    /\ drawsSinceBomb = 0
    /\ shakenDraws = 0
    /\ NothingFollowed
    /\ MainIdle

\* gameEngine.update()
Tick ==
    /\ budget > 0
    /\ \E rnd \in (IF RandsFor(engine) = Rands THEN CadenceRands ELSE RandsFor(engine)) :
          LET c == Update(Ctx(engine), rnd)
          IN /\ engine' = c.eng
             /\ notes' = c.out
             /\ endCount' = endCount + Ends(c.out)
             /\ atEnd' = IF atEnd = Null THEN c.atEnd ELSE atEnd
             /\ Follow(engine, c.eng)
    /\ budget' = IF engine.state = "PLAYING" THEN budget - 1 ELSE budget
    /\ lastOp' = [op |-> "update", arg |-> NoArg]
    /\ UNCHANGED <<drawsSinceBomb, shakenDraws, mainVars>>

\* gameEngine.start(), which opens a new session
Restart ==
    /\ LET c == Start(Ctx(engine))
       IN /\ engine' = c.eng
          /\ notes' = c.out
    /\ endCount' = 0
    /\ atEnd' = Null
    /\ lastOp' = [op |-> "start", arg |-> <<engine.state, lastOp.op>>]
    /\ sinceSpawn' = 0
    /\ burstSlots' = {}
    /\ burstAge' = 0
    /\ UNCHANGED <<budget, drawsSinceBomb, shakenDraws, mainVars>>

NextCadence == Tick \/ Restart

SpecCadence == InitCadence /\ [][NextCadence]_vars

----------------------------------------------------------------------------
(* Claims about the engine *)

\* C1: in every session onGameEnd is invoked exactly once, at the collision
\* that first brings life to 0, and never again before the next start(): no
\* call while the game is not over, exactly one once it is.
C1_GameEndOnce ==
    /\ engine.state = "GAME_OVER" => endCount = 1
    /\ engine.state # "GAME_OVER" => endCount = 0

\* C2: in every reachable state 0 <= life <= 3; life is never negative.
C2_LifeInRange == engine.life >= 0 /\ engine.life <= InitialLife

NoScoreChangeAfterEnd(out) ==
    \A i, j \in 1..Len(out) :
        (i < j /\ out[i][1] = "onGameEnd") => out[j][1] # "onScoreChange"

\* C3: GAME_OVER is terminal until start(): from the moment gameOver() set the
\* state, score, life, combo, baseSpeed, the shake and flash timers, the
\* particle pool and the item list keep the values they had at that moment,
\* and onScoreChange is not invoked after onGameEnd.
C3_GameOverTerminal ==
    engine.state = "GAME_OVER" =>
        /\ Frozen(engine) = atEnd
        /\ NoScoreChangeAfterEnd(notes)

\* the target the specification gives setPose(label) in the engine e
ExpectedTarget(e, label) ==
    IF Lower(label) = L_left THEN LaneTarget(e.canvas, 0)
    ELSE IF Lower(label) = L_center THEN LaneTarget(e.canvas, 1)
    ELSE IF Lower(label) = L_right THEN LaneTarget(e.canvas, 2)
    ELSE e.targetX

\* C4: while PLAYING, setPose matches the lane label case-insensitively and
\* ignores unknown labels: "left", "center", "LEFT", "right" set the target to
\* the centre of their lane, laneWidth x (laneIndex + 0.5), and "bogus"
\* leaves it unchanged.
C4_PoseCaseInsensitive ==
    [][(lastOp'.op = "setPose" /\ engine.state = "PLAYING")
         => engine'.targetX = ExpectedTarget(engine, lastOp'.arg)]_vars

\* the hits among the listener calls `out` of one update() that took the score
\* across a multiple of 1000, the score having been `score` before them
RECURSIVE Crossings(_, _, _)
Crossings(score, out, i) ==
    IF i > Len(out) THEN 0
    ELSE IF out[i][1] = "onScoreChange"
         THEN (IF out[i][2] \div RampModulus > score \div RampModulus THEN 1 ELSE 0)
              + Crossings(out[i][2], out, i + 1)
         ELSE Crossings(score, out, i + 1)

\* the speed b raised n times by the step 0.05
RECURSIVE Stepped(_, _)
Stepped(b, n) == IF n = 0 THEN b ELSE Stepped(Add(b, Step), n - 1)

\* C7: a scoring hit increments baseSpeed by one step (0.05) exactly when it
\* takes the score across a multiple of 1000, and no other hit changes it.
C7_RampOnCrossing ==
    [][lastOp'.op = "update"
         => engine'.baseSpeed =
                Stepped(engine.baseSpeed, Crossings(engine.score, notes', 1))]_vars

\* the engine right after the first start() on the canvas of e
FirstStart(e) == Start(Ctx(EngineInit(Constructed, e.canvas))).eng

AllInactive(ps) == \A i \in 1..PoolSize : ~Slots(ps)[i].active

\* C8: the engine state right after start() (score, life, level, combo, items,
\* particles, baseSpeed, spawn timer, shake timer, flash timer, player
\* position and player target) is that of the first session, whatever
\* preceded the call.
C8_StartResetsAll ==
    lastOp.op = "start" =>
        /\ engine.state = FirstStart(engine).state
        /\ engine.score = FirstStart(engine).score
        /\ engine.life = FirstStart(engine).life
        /\ engine.level = FirstStart(engine).level
        /\ engine.combo = FirstStart(engine).combo
        /\ engine.items = FirstStart(engine).items
        /\ AllInactive(engine.particles)
        /\ engine.baseSpeed = FirstStart(engine).baseSpeed
        /\ engine.spawnTimer = FirstStart(engine).spawnTimer
        /\ engine.shakeTimer = FirstStart(engine).shakeTimer
        /\ engine.flashTimer = FirstStart(engine).flashTimer
        /\ engine.playerX = FirstStart(engine).playerX
        /\ engine.targetX = FirstStart(engine).targetX

\* C9: start() called in any state leaves state = PLAYING, score = 0,
\* life = 3, level = 1, combo = 0, no items, every particle inactive and
\* baseSpeed = 6.0, and invokes onScoreChange exactly once, with (0, 3, 1, 0).
C9_StartResets ==
    lastOp.op = "start" =>
        /\ engine.state = "PLAYING"
        /\ engine.score = 0
        /\ engine.life = 3
        /\ engine.level = 1
        /\ engine.combo = 0
        /\ engine.items = <<>>
        /\ AllInactive(engine.particles)
        /\ engine.baseSpeed = Whole(6)
        /\ notes = << <<"onScoreChange", 0, 3, 1, 0>> >>

\* C9 witness: start() has been called on a game that was over
C9_Witness == lastOp.op = "start" /\ lastOp.arg[1] = "GAME_OVER"

\* C10: start() is idempotent: a start() that directly follows a start()
\* leaves the engine exactly as the first one left it.
C10_StartIdempotent ==
    [][(lastOp.op = "start" /\ lastOp'.op = "start") => engine' = engine]_vars

\* C10 witness: start() has been called right after a start() that had reset a
\* finished game
C10_Witness ==
    lastOp.op = "start" /\ lastOp.arg = <<"PLAYING", "start">> /\ budget < MaxTicks

\* the listener calls `out` of one update(), from the i-th on, follow the combo
\* rule from the given score and combo: a call either reports the next combo
\* and the score of an item of the field times 1 + floor(combo / 10) added, or
\* combo 0 and the score unchanged
RECURSIVE ComboRule(_, _, _, _, _)
ComboRule(items, score, combo, out, i) ==
    IF i > Len(out) THEN TRUE
    ELSE IF out[i][1] # "onScoreChange" THEN ComboRule(items, score, combo, out, i + 1)
    ELSE /\ \/ /\ out[i][5] = combo + 1
               /\ \E j \in 1..Len(items) :
                      /\ items[j].type # "bomb"
                      /\ out[i][2] = score + items[j].score * (1 + (out[i][5] \div 10))
            \/ /\ out[i][5] = 0
               /\ out[i][2] = score
         /\ ComboRule(items, out[i][2], out[i][5], out, i + 1)

\* C11: the k-th consecutive non-hazard hit since the last combo reset adds
\* item.score x (1 + floor(k / 10)) to score and leaves combo = k; a hazard hit
\* or a missed item resets combo to 0.  Stated on the listener calls of every
\* update(): they follow the combo rule and the last one reports the engine.
C11_ComboMultiplier ==
    [][(lastOp'.op = "update" /\ engine.state = "PLAYING")
         => /\ ComboRule(engine.items, engine.score, engine.combo, notes', 1)
            /\ notes' = <<>> => (engine'.score = engine.score /\ engine'.combo = engine.combo)
            /\ engine'.life < engine.life /\ engine'.score = engine.score
                   => engine'.combo = 0]_vars

\* C11 witness: the tenth hit of a streak of oranges has just scored double
C11_Witness ==
    /\ lastOp.op = "update"
    /\ engine.combo = 10
    /\ notes = << <<"onScoreChange", 3300, 3, 1, 10>> >>

\* the item, advanced, is past the bottom of the canvas of e, away from the player
Dropped(e, item) ==
    /\ Less(Whole(e.canvas.height), Advanced(item).y)
    /\ ~Collides(e, Advanced(item))

HasItem(items, item) == \E j \in 1..Len(items) : items[j] = item

\* C13: an item whose y exceeds the canvas height after being advanced, without
\* colliding with the player, is removed in that same update(), and (no item
\* being hit in that pass) combo is 0 afterwards whatever it was, while score
\* and life are unchanged.
C13_MissResetsCombo ==
    [][(lastOp'.op = "update" /\ engine.state = "PLAYING")
         => \A i \in 1..Len(engine.items) :
               Dropped(engine', engine.items[i])
                  => /\ ~HasItem(engine'.items, Advanced(engine.items[i]))
                     /\ (\A j \in 1..Len(engine.items) :
                            ~Collides(engine', Advanced(engine.items[j])))
                          => /\ engine'.combo = 0
                             /\ engine'.score = engine.score
                             /\ engine'.life = engine.life]_vars

\* C13 witness: an item has just left the field after seven oranges were caught
\* in a row (combo 7, score 2100), and the listener was told combo 0
C13_Witness ==
    /\ lastOp.op = "update"
    /\ engine.score = 2100
    /\ engine.combo = 0
    /\ notes = << <<"onScoreChange", 2100, 3, 1, 0>> >>

\* C14: score is non-decreasing within a session: after every update() and
\* setPose() called while PLAYING, score is at least what it was before.
C14_ScoreMonotone ==
    [][(engine.state = "PLAYING" /\ lastOp'.op \in {"update", "setPose"})
         => engine'.score >= engine.score]_vars

\* C14 witness: the first apple of a session has just been caught
C14_Witness ==
    /\ lastOp.op = "update"
    /\ notes = << <<"onScoreChange", 100, 3, 1, 1>> >>
    /\ engine.score = 100

\* the last onScoreChange call among the listener calls out
LastScoreChange(out) ==
    out[CHOOSE j \in 1..Len(out) :
            /\ out[j][1] = "onScoreChange"
            /\ \A k \in (j + 1)..Len(out) : out[k][1] # "onScoreChange"]

\* C15: after any hit onScoreChange is invoked with the post-hit values
\* (score, life, level, combo); when the hit leaves life <= 0 the state
\* becomes GAME_OVER and onGameEnd(score, level) is invoked right after an
\* onScoreChange that carries that score and level and life <= 0, never
\* before it.
C15_NotifyThenEnd ==
    [][(lastOp'.op = "update" /\ engine.state = "PLAYING")
         => /\ <<engine'.score, engine'.life, engine'.combo>>
                  # <<engine.score, engine.life, engine.combo>> => notes' # <<>>
            /\ notes' # <<>> =>
                  LastScoreChange(notes') =
                     <<"onScoreChange", engine'.score, engine'.life,
                       engine'.level, engine'.combo>>
            /\ \A j \in 1..Len(notes') :
                  notes'[j][1] = "onGameEnd"
                     => /\ j > 1
                        /\ notes'[j - 1][1] = "onScoreChange"
                        /\ notes'[j - 1][2] = notes'[j][2]
                        /\ notes'[j - 1][3] <= 0
                        /\ notes'[j - 1][4] = notes'[j][3]
            /\ engine'.life <= 0 =>
                  (engine'.state = "GAME_OVER" /\ Ends(notes') >= 1)]_vars

\* C15 witness: the third bomb has just ended a game: onScoreChange with life 0,
\* then onGameEnd
C15_Witness ==
    /\ lastOp.op = "update"
    /\ notes = << <<"onScoreChange", 0, 0, 1, 0>>,
                  <<"onScoreChange", 0, 0, 1, 0>>,
                  <<"onGameEnd", 0, 1>> >>

\* C16: a pose delivery changes only the stored target: setPose() leaves the
\* player position, score, life, combo, items, particles and timers as they
\* were and notifies nobody; the target it stores depends on the delivered
\* label alone, so of several deliveries the last one that set a target
\* decides; the player moves only in update(), toward the target stored then.
C16_PoseSetsTargetOnly ==
    [][/\ lastOp'.op = "setPose" =>
              /\ engine' = [engine EXCEPT !.targetX = engine'.targetX]
              /\ notes' = <<>>
              /\ \/ engine'.targetX = engine.targetX
                 \/ engine'.targetX =
                        SetPose(Ctx(FirstStart(engine)), lastOp'.arg).eng.targetX
       /\ (lastOp'.op = "update" /\ engine.state = "PLAYING") =>
              /\ engine'.targetX = engine.targetX
              /\ engine'.playerX =
                     Add(engine.playerX,
                         Mul(Sub(engine.targetX, engine.playerX), Smoothing))]_vars

\* C16 witness: "Right" has been delivered to a player standing in another
\* lane: the target is the right lane, the player has not moved
C16_Witness ==
    /\ lastOp.op = "setPose"
    /\ lastOp.arg = L_Right
    /\ engine.state = "PLAYING"
    /\ engine.targetX = LaneTarget(engine.canvas, 2)
    /\ Less(engine.playerX, LaneTarget(engine.canvas, 1))

\* C17: update() and setPose() called while the state is READY or GAME_OVER
\* change no field of the engine and fire no notification.
C17_IdleNoOp ==
    [][(engine.state # "PLAYING" /\ lastOp'.op \in {"update", "setPose"})
         => (engine' = engine /\ notes' = <<>>)]_vars

\* C17 witness: update() has been called on a game that was over, with a bomb
\* still on the field and a shake running
C17_Witness ==
    /\ lastOp.op = "update"
    /\ engine.state = "GAME_OVER"
    /\ notes = <<>>
    /\ engine.shakeTimer > 0

Min(a, b) == IF a < b THEN a ELSE b

\* C18: a bomb hit gives 20 frames of screen shake: while the game stays
\* PLAYING and no further bomb hits, the shake is applied in each of the first
\* 20 draw() calls that follow the hit and in none after them.
C18_TwentyShakenDraws ==
    (engine.state = "PLAYING" /\ drawsSinceBomb > 0)
        => shakenDraws = Min(drawsSinceBomb, ShakeFrames)

\* the runs of the pool tile the slots 1..PoolSize
WholePool(ps) ==
    /\ Len(ps) >= 1
    /\ ps[1].from = 1
    /\ \A k \in 1..Len(ps) : ps[k].from <= PoolSize
    /\ \A k \in 1..(Len(ps) - 1) : ps[k].from < ps[k + 1].from

\* C12: an explosion issued when a of the 100 slots are active activates
\* exactly min(15, 100 - a) slots that were inactive and leaves every active
\* slot as it was; the pool always holds 100 slots and never more than 100
\* of them are active.
C12_PoolTruncates ==
    [][/\ WholePool(engine'.particles)
       /\ ActiveCount(engine'.particles) <= PoolSize
       /\ lastOp'.op = "spawnExplosion" =>
              /\ ActiveCount(engine'.particles) =
                     ActiveCount(engine.particles)
                       + Min(BurstSize, PoolSize - ActiveCount(engine.particles))
              /\ \A i \in 1..PoolSize :
                     Slots(engine.particles)[i].active
                        => Slots(engine'.particles)[i] = Slots(engine.particles)[i]]_vars

\* C12 witness: seven explosions in a row, the seventh cut to the ten slots left
C12_Witness ==
    /\ lastOp.op = "spawnExplosion"
    /\ budget = PoolSteps - 7
    /\ ActiveCount(engine.particles) = PoolSize

\* C5: after stop() has run, from the stop button between frames or from the
\* onGameEnd callback inside a running frame callback, no frame callback is
\* scheduled until the loop is started again.
C5_StopCancelsFrames == stopped => pending = <<>>

\* C6: at most one frame loop is scheduled at a time, and an animation frame
\* calls gameEngine.update() once.
C6_OneLoop == Len(pending) <= 1 /\ frameUpdates <= 1

\* the items of e that the pass of update() leading to the engine e2 found
\* colliding with the player
HitIn(e, e2) == {i \in 1..Len(e.items) : Collides(e2, Advanced(e.items[i]))}

\* C19: a bomb hit changes life by exactly -1, sets combo to 0 and sets the
\* shake timer, and leaves score, baseSpeed and the flash timer unchanged; a
\* scoring hit leaves life and the shake timer unchanged and sets the flash
\* timer only for a diamond.  Stated of every update() in which one item hits
\* and none leaves the field; the timers are read after the countdown that
\* ends that update().
C19_HitEffects ==
    [][(lastOp'.op = "update" /\ engine.state = "PLAYING")
         => \A i \in 1..Len(engine.items) :
               (/\ HitIn(engine, engine') = {i}
                /\ \A j \in 1..Len(engine.items) : ~Dropped(engine', engine.items[j]))
                  => IF engine.items[i].type = "bomb"
                     THEN /\ engine'.life = engine.life - 1
                          /\ engine'.combo = 0
                          /\ engine'.shakeTimer = TimerTick(ShakeFrames)
                          /\ engine'.score = engine.score
                          /\ engine'.baseSpeed = engine.baseSpeed
                          /\ engine'.flashTimer = TimerTick(engine.flashTimer)
                     ELSE /\ engine'.life = engine.life
                          /\ engine'.shakeTimer = TimerTick(engine.shakeTimer)
                          /\ engine'.flashTimer =
                                 IF engine.items[i].type = "diamond"
                                 THEN TimerTick(FlashFrames)
                                 ELSE TimerTick(engine.flashTimer)]_vars

\* C19 witness: a diamond has just been caught as the first item of a session:
\* the flash timer is set, the shake timer is not, no life is lost
C19_Witness ==
    /\ lastOp.op = "update"
    /\ notes = << <<"onScoreChange", 1000, 3, 1, 1>> >>
    /\ engine.flashTimer = FlashFrames - 1
    /\ engine.shakeTimer = 0

\* the item was spawned and advanced once
FreshItem(item) == item.y = Add(Whole(SpawnY), item.speed) /\ item.angle = 1

\* C20: in one update() pass every item of the list is advanced by its speed
\* exactly once, even when other items are removed in the same pass; an item
\* is removed iff it collided with the player or its y exceeds the canvas
\* height, so after every update() no remaining item has y > canvas height.
\* The list after the pass is the survivors of the list before it, then the
\* item spawned in that pass if there is one.
C20_EachItemOnce ==
    [][(lastOp'.op = "update" /\ engine.state = "PLAYING")
         => /\ \/ engine'.items = Survivors(engine, engine')
               \/ /\ Len(engine'.items) = Len(Survivors(engine, engine')) + 1
                  /\ SubSeq(engine'.items, 1, Len(engine'.items) - 1)
                        = Survivors(engine, engine')
                  /\ FreshItem(engine'.items[Len(engine'.items)])
            /\ \A i \in 1..Len(engine'.items) :
                  ~Less(Whole(engine.canvas.height), engine'.items[i].y)]_vars

\* C20 witness: of four items two were caught in one pass (a diamond, then an
\* apple) and two stayed on the field
C20_Witness ==
    /\ lastOp.op = "update"
    /\ notes = << <<"onScoreChange", 1000, 3, 1, 1>>,
                  <<"onScoreChange", 1100, 3, 1, 2>> >>
    /\ Len(engine.items) = 2

\* C21: the spawn timer counts the PLAYING update() calls and fires when it
\* exceeds the spawn interval of 45: an update() spawns at most one item, two
\* consecutive spawns of a session are exactly 46 update() calls apart, and
\* after every update() 0 <= spawnTimer <= 45.
C21_SpawnCadence ==
    [][(lastOp'.op = "update" /\ engine.state = "PLAYING")
         => /\ Spawned(engine, engine') \in {0, 1}
            /\ (sinceSpawn > 0) =>
                   (Spawned(engine, engine') = 1 <=> sinceSpawn = 46)
            /\ engine'.spawnTimer =
                   IF Spawned(engine, engine') = 1 THEN 0 ELSE engine.spawnTimer + 1
            /\ engine'.spawnTimer \in 0..45]_vars

\* C21 witness: an update() has just spawned the second item of a session
\* while the first, 46 updates older, is still falling
C21_Witness ==
    /\ lastOp.op = "update"
    /\ sinceSpawn = 1
    /\ Len(engine.items) = 2
    /\ engine.items[1].angle = 47
    /\ FreshItem(engine.items[2])

\* C22: every particle an explosion activates is active for exactly 34
\* PLAYING update() calls, the one that made the explosion included, and is
\* inactive after the 34th, unless start() deactivates it earlier; so every
\* slot taken is free again 34 updates later: in a game that is PLAYING every
\* active particle has a life above 0 that an update() has already reduced.
C22_ParticleLifetime ==
    /\ \A i \in burstSlots : Slots(engine.particles)[i].active <=> burstAge < 34
    /\ engine.state = "PLAYING"
          => \A i \in 1..PoolSize :
                Slots(engine.particles)[i].active
                   => Slots(engine.particles)[i].life \in 1..97

\* C22 witness: the 34th update() since an explosion has just deactivated its
\* fifteen particles
C22_Witness ==
    /\ lastOp.op = "update"
    /\ burstAge = 34
    /\ Cardinality(burstSlots) = BurstSize
    /\ \A i \in burstSlots : ~Slots(engine.particles)[i].active

\* C23: level is 1 in every reachable state, whatever the score, and every
\* onScoreChange and every onGameEnd call reports level 1.
C23_LevelAlwaysOne ==
    /\ engine.level = 1
    /\ \A i \in 1..Len(notes) :
          /\ notes[i][1] = "onScoreChange" => notes[i][4] = 1
          /\ notes[i][1] = "onGameEnd" => notes[i][3] = 1

\* C23 witness: a catch has just taken the score past 3000 and was reported
\* with level 1
C23_Witness ==
    /\ lastOp.op = "update"
    /\ engine.score >= 3000
    /\ Len(notes) > 0
    /\ notes[Len(notes)][1] = "onScoreChange"
    /\ notes[Len(notes)][2] = engine.score
    /\ notes[Len(notes)][4] = 1

====
